---- MODULE Spec2Model ----
(***************************************************************************)
(* Model of the feedback agent's run (src/main.py): scraping two stores,   *)
(* merging into the persisted review history, saving it, and resolving     *)
(* topics/buzzwords through the remote AI, the analysis cache and the      *)
(* local heuristics.                                                       *)
(*                                                                         *)
(* A Python str is a sequence of one-character strings; a dict with        *)
(* optional keys is a TLA+ record read through Get; an insertion-ordered   *)
(* dict of reviews keyed by 'id' is a sequence of records with distinct    *)
(* ids.  SHA-256 is taken to be injective: a digest is the hashed string.  *)
(***************************************************************************)
EXTENDS Integers, Sequences, FiniteSets, TLC

VARIABLES
    dataFile,    \* data/reviews_history.json on disk
    cacheFile,   \* data/analysis_cache.json on disk
    pc,          \* position of the process in __main__
    model,       \* module-level `model`: TRUE when the AI client was built
    batch,       \* records the fetchers returned in this run, in loop order
    full,        \* `full` of __main__: the merged history, sorted
    new,         \* `new` of __main__: the records inserted in this run
    ai,          \* what the remote AI answered to the two calls of this run
    newCache,    \* `new_cache` of get_ai_data_hybrid while it is being saved
    result,      \* what get_ai_data_hybrid returned
    upstream,    \* what the stores answered to the fetchers of the
                 \* get_fresh_reviews call that has just returned
    today,       \* `today` of calculate_trends and prepare_chart_data
    days,        \* `days` of prepare_chart_data
    trends,      \* what calculate_trends returned
    chart,       \* what prepare_chart_data returned
    topicK,      \* the number of topics asked of the clustering engine
    clusterOf,   \* the cluster K-means put each qualifying record in
    representatives  \* what the clustering engine returned

vars == <<dataFile, cacheFile, pc, model, batch, full, new, ai, newCache, result,
          upstream, today, days, trends, chart, topicK, clusterOf,
          representatives>>

-----------------------------------------------------------------------------
(* Bounds of the model *)

\* most raw entries all upstream feeds of one run return together
MaxBatch == 2

\* most reviews in a history handed to the trend functions
MaxReviews == 3

\* most reviews in a history handed to the clustering engine
MaxTopicReviews == 4

-----------------------------------------------------------------------------
(* Python helpers *)

Min(a, b) == IF a < b THEN a ELSE b

\* s[:n]
Take(s, n) == SubSeq(s, 1, Min(n, Len(s)))

\* d.get(k, default)
Get(d, k, default) == IF k \in DOMAIN d THEN d[k] ELSE default

\* ord() of the characters that occur in dates
Ord(c) ==
    CASE c = "-" -> 45
      [] c = "0" -> 48 [] c = "1" -> 49 [] c = "2" -> 50 [] c = "3" -> 51
      [] c = "4" -> 52 [] c = "5" -> 53 [] c = "6" -> 54 [] c = "7" -> 55
      [] c = "8" -> 56 [] c = "9" -> 57
      [] OTHER -> 84

\* a < b on str (lexicographic by code point)
RECURSIVE StrLess(_, _)
StrLess(a, b) ==
    IF b = <<>> THEN FALSE
    ELSE IF a = <<>> THEN TRUE
    ELSE IF Ord(Head(a)) # Ord(Head(b)) THEN Ord(Head(a)) < Ord(Head(b))
    ELSE StrLess(Tail(a), Tail(b))

\* str(n) for one decimal digit
DigitChar(n) ==
    CASE n = 0 -> "0" [] n = 1 -> "1" [] n = 2 -> "2" [] n = 3 -> "3"
      [] n = 4 -> "4" [] n = 5 -> "5" [] n = 6 -> "6" [] n = 7 -> "7"
      [] n = 8 -> "8" [] n = 9 -> "9"

\* zero-padded decimal of width w (%Y is width 4, %m and %d width 2)
RECURSIVE Decimal(_, _)
Decimal(n, w) ==
    IF w = 0 THEN <<>> ELSE Decimal(n \div 10, w - 1) \o <<DigitChar(n % 10)>>

\* datetime.strftime('%Y-%m-%d')
Strftime(at) ==
    Decimal(at.year, 4) \o <<"-">> \o Decimal(at.month, 2) \o <<"-">>
        \o Decimal(at.day, 2)

\* int(label) of a one-digit rating label; -1 stands for ValueError
IntOf(label) ==
    IF Len(label) = 1 /\ \E n \in 0..9 : DigitChar(n) = label[1]
    THEN CHOOSE n \in 0..9 : DigitChar(n) = label[1]
    ELSE -1

-----------------------------------------------------------------------------
(* Configuration *)

Nordkurier == <<"N", "o", "r", "d", "k", "u", "r", "i", "e", "r">>
Schwaebische == <<"S", "c", "h", "w", "ä", "b", "i", "s", "c", "h", "e">>

\* APP_CONFIG, in list order
APP_CONFIG == <<[name |-> Nordkurier], [name |-> Schwaebische]>>

Ios == <<"i", "o", "s">>
Android == <<"a", "n", "d", "r", "o", "i", "d">>

\* text[:50] of generate_id
PrefixLen == 50

\* count=20 of get_fresh_reviews and the fetchers
Count == 20

\* the retention bound N of the history store (1000 by default), scaled to
\* the histories of this model
RetentionBound == 3

-----------------------------------------------------------------------------
(* 2. Data management *)

\* generate_id: sha256 of text[:50] + date + app + store, missing keys as ''
generate_id(review) ==
    Take(Get(review, "text", <<>>), PrefixLen) \o Get(review, "date", <<>>)
        \o Get(review, "app", <<>>) \o Get(review, "store", <<>>)

\* the ids of a list of reviews
Ids(list) == {list[i].id : i \in 1..Len(list)}

\* insert r behind every element whose date is >= r's (stable, descending)
RECURSIVE InsertByDate(_, _)
InsertByDate(sorted, r) ==
    IF sorted = <<>> THEN <<r>>
    ELSE IF StrLess(Head(sorted).date, r.date) THEN <<r>> \o sorted
    ELSE <<Head(sorted)>> \o InsertByDate(Tail(sorted), r)

\* mutant of SortedByDateDesc: the values in the order of the dict
SortedByDateDesc_Unsorted(list) == list

\* sorted(values, key=lambda x: x['date'], reverse=True)
RECURSIVE SortedByDateDesc(_)
SortedByDateDesc(list) ==
    IF list = <<>> THEN <<>>
    ELSE InsertByDate(SortedByDateDesc(SubSeq(list, 1, Len(list) - 1)),
                      list[Len(list)])

\* a dict comprehension {r['id']: r for r in list}: a later record with a
\* key already present replaces the value and keeps the key's position
RECURSIVE DictById(_)
DictById(list) ==
    IF list = <<>> THEN <<>>
    ELSE LET init == DictById(SubSeq(list, 1, Len(list) - 1))
             r == list[Len(list)]
         IN  IF r.id \in Ids(init)
             THEN [i \in 1..Len(init) |->
                       IF init[i].id = r.id THEN r ELSE init[i]]
             ELSE Append(init, r)

\* the file states: absent, ok (a complete JSON list of objects), torn
\* (opened for writing and not closed: a proper prefix of the document, of
\* which `content` holds the entries written in full), foreign (a complete
\* JSON document of another shape)
AbsentFile == [state |-> "absent", content |-> <<>>]

\* mutant of load_history: the file is never read
load_history_Empty(file) == <<>>

\* mutant of load_history: the complete entries of a truncated document are
\* recovered
load_history_ReadsTorn(file) ==
    IF file.state \in {"ok", "torn"}
    THEN DictById(SelectSeq(file.content, LAMBDA r : "id" \in DOMAIN r))
    ELSE <<>>

\* load_history: the entries that have an 'id', by id; {} when the file is
\* absent, does not parse ("torn") or parses to something whose entries
\* cannot be tested for 'id' ("foreign": null, a list of numbers)
load_history(file) ==
    IF file.state = "ok"
    THEN DictById(SelectSeq(file.content, LAMBDA r : "id" \in DOMAIN r))
    ELSE <<>>

\* data_list of save_history
DataList(history_dict) == SortedByDateDesc(history_dict)

\* save_history({r['id']: r for r in full}): the document written
SavedHistory(full_list) == DataList(DictById(full_list))

-----------------------------------------------------------------------------
(* Upstream feeds: what the two stores can answer in this model *)

\* 50 characters "werbung werbung ... we"
Base ==
    [i \in 1..PrefixLen |->
        <<"w", "e", "r", "b", "u", "n", "g", " ">>[((i - 1) % 8) + 1]]

\* two review texts that agree on their first 50 characters only
TextC == Base \o <<"c">>
TextD == Base \o <<"d">>

Day1 == [year |-> 2024, month |-> 1, day |-> 1]
Day2 == [year |-> 2024, month |-> 1, day |-> 2]

\* the 'updated' label of the RSS feed: an ISO timestamp
Updated(at) == Strftime(at) \o <<"T", "0", "7">>

IosA == [content |-> TextC, rating |-> <<"5">>, updated |-> Updated(Day1)]
\* IosA a day later
IosC == [content |-> TextC, rating |-> <<"5">>, updated |-> Updated(Day2)]
\* an entry without 'im:rating', and one without 'content'
IosNoRating == [content |-> TextC, updated |-> Updated(Day1)]
IosNoContent == [rating |-> <<"5">>, updated |-> Updated(Day1)]

AndroidA == [content |-> TextC, score |-> 5, at |-> Day1, replyContent |-> <<>>]
\* same first 50 characters and day as AndroidA; rating, reply and tail differ
AndroidB ==
    [content |-> TextD, score |-> 1, at |-> Day1,
     replyContent |-> <<"D", "a", "n", "k", "e">>]

\* AndroidA a day later
AndroidC == [content |-> TextC, score |-> 5, at |-> Day2, replyContent |-> <<>>]

IosEntries(app_name) ==
    IF app_name = Nordkurier THEN {IosA, IosC} ELSE {IosNoRating, IosNoContent}

\* a result without 'at'
AndroidNoAt == [content |-> TextC, score |-> 5, replyContent |-> <<>>]

AndroidEntries(app_name) ==
    IF app_name = Nordkurier THEN {AndroidA, AndroidB, AndroidC}
    ELSE {AndroidA, AndroidNoAt}

SeqsUpTo(S, n) == UNION {[1..k -> S] : k \in 0..n}

\* a store's answer: the request fails (ok = FALSE) or returns entries
Responses(S) ==
    {[ok |-> FALSE, entries |-> <<>>]}
        \cup {[ok |-> TRUE, entries |-> es] : es \in SeqsUpTo(S, MaxBatch)}

-----------------------------------------------------------------------------
(* 5. Scraping *)

\* one record of fetch_ios_reviews; the id is hashed without the date
IosRecord(app_name, e) ==
    [store |-> Ios, app |-> app_name, rating |-> IntOf(e.rating),
     text |-> e.content, date |-> Take(Get(e, "updated", <<>>), 10),
     id |-> generate_id([app |-> app_name, store |-> Ios, text |-> e.content]),
     reply |-> FALSE]

\* fetch_ios_reviews: any exception gives []
fetch_ios_reviews(app_name, resp) ==
    IF ~resp.ok THEN <<>>
    ELSE LET es == SelectSeq(Take(resp.entries, Count),
                             LAMBDA e : "content" \in DOMAIN e)
         IN  IF \E i \in 1..Len(es) :
                    \/ "rating" \notin DOMAIN es[i]
                    \/ IntOf(es[i].rating) = -1
             THEN <<>>
             ELSE [i \in 1..Len(es) |-> IosRecord(app_name, es[i])]

\* one record of fetch_android_reviews
AndroidRecord(app_name, r) ==
    LET d == Strftime(r.at)
    IN  [store |-> Android, app |-> app_name, rating |-> r.score,
         text |-> r.content, date |-> d,
         id |-> generate_id([app |-> app_name, store |-> Android, date |-> d,
                             text |-> r.content]),
         reply |-> (Get(r, "replyContent", <<>>) # <<>>)]

\* mutant of fetch_android_reviews: the try is inside the loop, the results
\* that could be read are returned
fetch_android_reviews_KeepsParsed(app_name, resp) ==
    IF ~resp.ok THEN <<>>
    ELSE LET res == SelectSeq(Take(resp.entries, Count),
                        LAMBDA r : {"at", "score", "content"} \subseteq DOMAIN r)
         IN  [i \in 1..Len(res) |-> AndroidRecord(app_name, res[i])]

\* fetch_android_reviews: any exception gives []
fetch_android_reviews(app_name, resp) ==
    IF ~resp.ok THEN <<>>
    ELSE LET res == Take(resp.entries, Count)
         IN  IF \E i \in 1..Len(res) :
                    {"at", "score", "content"} \ DOMAIN res[i] # {}
             THEN <<>>
             ELSE [i \in 1..Len(res) |-> AndroidRecord(app_name, res[i])]

\* what the fetchers return over the loop of get_fresh_reviews, in order
RECURSIVE Fetched(_, _)
Fetched(apps, feeds) ==
    IF apps = <<>> THEN <<>>
    ELSE LET name == Head(apps).name
         IN  fetch_ios_reviews(name, feeds[name].ios)
                 \o fetch_android_reviews(name, feeds[name].android)
                 \o Fetched(Tail(apps), feeds)

\* mutant of MergeInto: the `not in hist` test is missing
MergeInto_NoDedup(hist, added, rs) == [hist |-> hist \o rs, new |-> added \o rs]

\* mutant of MergeInto: a fetched record replaces the record of its id
RECURSIVE MergeInto_LastWins(_, _, _)
MergeInto_LastWins(hist, added, rs) ==
    IF rs = <<>> THEN [hist |-> hist, new |-> added]
    ELSE LET r == Head(rs)
         IN  IF r.id \notin Ids(hist)
             THEN MergeInto_LastWins(Append(hist, r), Append(added, r), Tail(rs))
             ELSE MergeInto_LastWins(
                      [i \in 1..Len(hist) |->
                           IF hist[i].id = r.id THEN r ELSE hist[i]],
                      added, Tail(rs))

\* mutant of MergeInto: the loop ends at the first record already known
RECURSIVE MergeInto_StopAtKnown(_, _, _)
MergeInto_StopAtKnown(hist, added, rs) ==
    IF rs = <<>> THEN [hist |-> hist, new |-> added]
    ELSE LET r == Head(rs)
         IN  IF r.id \notin Ids(hist)
             THEN MergeInto_StopAtKnown(Append(hist, r), Append(added, r), Tail(rs))
             ELSE [hist |-> hist, new |-> added]

\* the loop body of get_fresh_reviews over the fetched records
RECURSIVE MergeInto(_, _, _)
MergeInto(hist, added, rs) ==
    IF rs = <<>> THEN [hist |-> hist, new |-> added]
    ELSE LET r == Head(rs)
         IN  IF r.id \notin Ids(hist)
             THEN MergeInto(Append(hist, r), Append(added, r), Tail(rs))
             ELSE MergeInto(hist, added, Tail(rs))

\* get_fresh_reviews on the history file and the fetched records
get_fresh_reviews(file, fetched) ==
    LET m == MergeInto(load_history(file), <<>>, fetched)
    IN  [full |-> SortedByDateDesc(m.hist), new |-> m.new]

\* the feeds of one run: an answer per app and store, MaxBatch entries at most
FeedChoices ==
    {f \in {(Nordkurier :> [ios |-> a, android |-> b])
                @@ (Schwaebische :> [ios |-> c, android |-> d]) :
                a \in Responses(IosEntries(Nordkurier)),
                b \in Responses(AndroidEntries(Nordkurier)),
                c \in Responses(IosEntries(Schwaebische)),
                d \in Responses(AndroidEntries(Schwaebische))} :
        Len(f[Nordkurier].ios.entries) + Len(f[Nordkurier].android.entries)
            + Len(f[Schwaebische].ios.entries)
            + Len(f[Schwaebische].android.entries) <= MaxBatch}

-----------------------------------------------------------------------------
(* Python values of the resolver, tagged with their type: what the AI      *)
(* answers, what the cache file holds and what get_ai_data_hybrid returns  *)

JStr(s) == [t |-> "str", v |-> s]
JNum(n) == [t |-> "num", v |-> n]
JList(xs) == [t |-> "list", v |-> xs]
JTuple(xs) == [t |-> "tuple", v |-> xs]
JDict(d) == [t |-> "dict", v |-> d]

\* {}
EmptyDict == JDict(<<>>)

\* bool(v)
Truthy(v) ==
    CASE v.t \in {"str", "list", "tuple"} -> v.v # <<>>
      [] v.t = "num" -> v.v # 0
      [] v.t = "dict" -> DOMAIN v.v # {}

\* json.dump then json.load: a tuple comes back as a list
RECURSIVE JsonRoundTrip(_)
JsonRoundTrip(v) ==
    CASE v.t \in {"list", "tuple"} ->
             JList([i \in DOMAIN v.v |-> JsonRoundTrip(v.v[i])])
      [] v.t = "dict" -> JDict([k \in DOMAIN v.v |-> JsonRoundTrip(v.v[k])])
      [] OTHER -> v

-----------------------------------------------------------------------------
(* 4. Hybrid intelligence: the local heuristics *)

\* the entries of STOP_WORDS that occur in the texts of this model
STOP_WORDS ==
    {<<"d", "i", "e">>, <<"a", "p", "p">>, <<"n", "i", "c", "h", "t">>,
     <<"a", "b", "s", "t", "u", "r", "z">>, <<"f", "e", "h", "l", "e", "r">>}

\* str.lower() and str.upper() on the letters of this model
Lower(c) ==
    CASE c = "A" -> "a" [] c = "W" -> "w" [] c = "N" -> "n" [] c = "F" -> "f"
      [] OTHER -> c

Upper(c) ==
    CASE c = "a" -> "A" [] c = "w" -> "W" [] c = "n" -> "N" [] c = "f" -> "F"
      [] OTHER -> c

LowerStr(s) == [i \in 1..Len(s) |-> Lower(s[i])]

\* str.capitalize()
Capitalize(w) ==
    IF w = <<>> THEN w
    ELSE <<Upper(w[1])>> \o [i \in 1..(Len(w) - 1) |-> Lower(w[i + 1])]

\* re.sub(r'[^\w\s]', '', s): punctuation is dropped
StripPunct(s) == SelectSeq(s, LAMBDA c : c \notin {"!", ".", ",", "?"})

\* str.split(): the maximal runs of characters that are not whitespace
Split(s) ==
    LET starts == SelectSeq([i \in 1..Len(s) |-> i],
                            LAMBDA i : s[i] # " " /\ (i = 1 \/ s[i - 1] = " "))
        EndOf(i) == CHOOSE j \in i..Len(s) :
                        /\ j = Len(s) \/ s[j + 1] = " "
                        /\ \A m \in i..j : s[m] # " "
    IN  [k \in 1..Len(starts) |-> SubSeq(s, starts[k], EndOf(starts[k]))]

\* " ".join(strs)
RECURSIVE Join(_)
Join(strs) ==
    IF strs = <<>> THEN <<>>
    ELSE IF Len(strs) = 1 THEN strs[1]
    ELSE strs[1] \o <<" ">> \o Join(Tail(strs))

\* Counter(items): <<item, count>> pairs in order of first occurrence
RECURSIVE Counter(_)
Counter(items) ==
    IF items = <<>> THEN <<>>
    ELSE LET init == Counter(SubSeq(items, 1, Len(items) - 1))
             x == items[Len(items)]
         IN  IF \E i \in 1..Len(init) : init[i][1] = x
             THEN [i \in 1..Len(init) |->
                       IF init[i][1] = x THEN <<x, init[i][2] + 1>> ELSE init[i]]
             ELSE Append(init, <<x, 1>>)

\* insert a pair behind every pair whose count is >= its own
RECURSIVE InsertByCount(_, _)
InsertByCount(sorted, p) ==
    IF sorted = <<>> THEN <<p>>
    ELSE IF Head(sorted)[2] < p[2] THEN <<p>> \o sorted
    ELSE <<Head(sorted)>> \o InsertByCount(Tail(sorted), p)

RECURSIVE SortedByCountDesc(_)
SortedByCountDesc(pairs) ==
    IF pairs = <<>> THEN <<>>
    ELSE InsertByCount(SortedByCountDesc(SubSeq(pairs, 1, Len(pairs) - 1)),
                       pairs[Len(pairs)])

\* Counter.most_common(n)
MostCommon(counter, n) == Take(SortedByCountDesc(counter), n)

\* the words of all texts, concatenated
RECURSIVE Flatten(_)
Flatten(lists) ==
    IF lists = <<>> THEN <<>> ELSE Head(lists) \o Flatten(Tail(lists))

\* mutant of get_local_topics: no default label
get_local_topics_NoDefault(texts) ==
    LET words ==
            Flatten([i \in 1..Len(texts) |->
                SelectSeq(Split(StripPunct(LowerStr(texts[i]))),
                          LAMBDA w : w \notin STOP_WORDS /\ Len(w) > 5)])
        mc == MostCommon(Counter(words), 5)
    IN  JList([i \in 1..Len(mc) |-> JStr(Capitalize(mc[i][1]))])

\* "Allgemeines Feedback"
DefaultTopic == <<"A", "l", "l", "g", "e", "m", "e", "i", "n", "e", "s", " ", "F", "e", "e", "d", "b", "a", "c", "k">>

\* get_local_topics
get_local_topics(texts) ==
    LET words ==
            Flatten([i \in 1..Len(texts) |->
                SelectSeq(Split(StripPunct(LowerStr(texts[i]))),
                          LAMBDA w : w \notin STOP_WORDS /\ Len(w) > 5)])
        mc == MostCommon(Counter(words), 5)
        common == [i \in 1..Len(mc) |-> JStr(Capitalize(mc[i][1]))]
    IN  IF common # <<>> THEN JList(common) ELSE JList(<<JStr(DefaultTopic)>>)

\* get_local_buzzwords
get_local_buzzwords(reviews) ==
    LET text_blob ==
            StripPunct(LowerStr(Join([i \in 1..Len(reviews) |->
                                         Get(reviews[i], "text", <<>>)])))
        words == Split(text_blob)
        idx == SelectSeq([i \in 1..(IF words = <<>> THEN 0 ELSE Len(words) - 1) |-> i],
                         LAMBDA i : /\ Len(words[i]) > 4
                                    /\ Len(words[i + 1]) > 4
                                    /\ words[i] \notin STOP_WORDS
                                    /\ words[i + 1] \notin STOP_WORDS)
        bigrams == [k \in 1..Len(idx) |->
                       Capitalize(words[idx[k]]) \o <<" ">>
                           \o Capitalize(words[idx[k] + 1])]
        mc == MostCommon(Counter(bigrams), 12)
    IN  JList([i \in 1..Len(mc) |-> JTuple(<<JStr(mc[i][1]), JNum(mc[i][2])>>)])

-----------------------------------------------------------------------------
(* The remote AI: what model.generate_content can answer in this model *)

\* the pieces of a response text: a code fence ("```json" or "```"), a JSON
\* document, or prose that is no JSON
Fence == [kind |-> "fence", value |-> JNum(0)]
Prose == [kind |-> "prose", value |-> JNum(0)]
Document(v) == [kind |-> "json", value |-> v]

\* generate_content raises (timeout, quota, authentication)
Raises == [raises |-> TRUE, text |-> <<>>]
Answers(text) == [raises |-> FALSE, text |-> text]

Login == JStr(<<"L", "o", "g", "i", "n">>)
Werbung == JStr(<<"W", "e", "r", "b", "u", "n", "g">>)

BuzzLogin == JList(<<JDict([term |-> Login, count |-> JNum(12)])>>)
BuzzWerbung == JList(<<JDict([term |-> Werbung, count |-> JNum(3)])>>)

BuzzResponses ==
    {Raises,
     Answers(<<Prose>>),
     Answers(<<Fence, Document(BuzzLogin), Fence>>),
     Answers(<<Document(BuzzWerbung)>>),
     Answers(<<Document(JList(<<>>))>>),
     \* an item without 'count'
     Answers(<<Document(JList(<<JDict([term |-> Login])>>))>>),
     \* a list of strings, an object, a number
     Answers(<<Document(JList(<<Login>>))>>),
     Answers(<<Document(JDict([buzzwords |-> BuzzLogin]))>>),
     Answers(<<Document(JNum(7))>>)}

DeepLogin ==
    JDict([topics |-> JList(<<Login>>),
           summary |-> JStr(<<"o", "k">>),
           topReviews |-> JList(<<JDict([text |-> JStr(<<"g", "u", "t">>)])>>),
           bottomReviews |-> JList(<<JDict([text |-> JStr(<<"m", "i", "e", "s">>)])>>)])

DeepResponses ==
    {Raises,
     Answers(<<Prose>>),
     Answers(<<Fence, Document(DeepLogin), Fence>>),
     \* an object without 'topics', and a list where an object is expected
     Answers(<<Document(JDict([summary |-> JStr(<<"o", "k">>)]))>>),
     Answers(<<Document(JList(<<Login>>))>>)}

\* datetime.now() when the cache is written
Nows == {Day1, Day2}

-----------------------------------------------------------------------------
(* 4. Hybrid intelligence: remote AI, cache, local fallback *)

\* text.replace("```json", "").replace("```", "").strip()
StripFences(text) == SelectSeq(text, LAMBDA p : p.kind # "fence")

\* json.loads: ok = FALSE stands for JSONDecodeError
json_loads(text) ==
    IF Len(text) = 1 /\ text[1].kind = "json"
    THEN [ok |-> TRUE, value |-> text[1].value]
    ELSE [ok |-> FALSE, value |-> JNum(0)]

\* [(i['term'], i['count']) for i in data_buzz if isinstance(i, dict)]
BuzzwordsOf(data_buzz) ==
    CASE data_buzz.t \in {"list", "tuple"} ->
             LET dicts == SelectSeq(data_buzz.v, LAMBDA i : i.t = "dict")
             IN  IF \E k \in 1..Len(dicts) :
                        {"term", "count"} \ DOMAIN dicts[k].v # {}
                 THEN [exc |-> "KeyError", value |-> JList(<<>>)]
                 ELSE [exc |-> "none",
                       value |-> JList([k \in 1..Len(dicts) |->
                           JTuple(<<dicts[k].v.term, dicts[k].v.count>>)])]
          \* iterating a dict gives its keys, a str its characters: no dict
      [] data_buzz.t \in {"dict", "str"} -> [exc |-> "none", value |-> JList(<<>>)]
          \* a number is not iterable
      [] OTHER -> [exc |-> "TypeError", value |-> JList(<<>>)]

\* "Keine Analyse verfügbar."
NoAnalysis == <<"K", "e", "i", "n", "e", " ", "A", "n", "a", "l", "y", "s", "e", " ", "v", "e", "r", "f", "ü", "g", "b", "a", "r", ".">>

AbsentCache == [state |-> "absent", content |-> EmptyDict]

\* load_analysis_cache: {} when the file is absent or does not parse
load_analysis_cache(file) ==
    IF file.state = "ok" THEN file.content ELSE EmptyDict

\* what save_analysis_cache leaves on disk once the with block has ended
SavedCache(data) == [state |-> "ok", content |-> JsonRoundTrip(data)]

\* lines 210-214: the results start from the cache
FromCache(cache) ==
    [topics |-> Get(cache.v, "topics", JList(<<>>)),
     buzzwords |-> Get(cache.v, "buzzwords", JList(<<>>)),
     summary |-> Get(cache.v, "summary", JStr(NoAnalysis)),
     topReviews |-> Get(cache.v, "topReviews", JList(<<>>)),
     bottomReviews |-> Get(cache.v, "bottomReviews", JList(<<>>))]

\* lines 230-232: the first call, its parse and the comprehension; exc is
\* the exception raised, "none" when result_buzzwords is assigned
RemoteBuzz(resp) ==
    IF resp.raises THEN [exc |-> "ApiError", value |-> JList(<<>>)]
    ELSE LET data_buzz == json_loads(StripFences(resp.text))
         IN  IF ~data_buzz.ok THEN [exc |-> "JSONDecodeError", value |-> JList(<<>>)]
             ELSE BuzzwordsOf(data_buzz.value)

\* lines 242-248: the second call, its parse and the four data_deep.get
RemoteDeep(resp) ==
    IF resp.raises THEN [exc |-> "ApiError", value |-> EmptyDict]
    ELSE LET data_deep == json_loads(StripFences(resp.text))
         IN  IF ~data_deep.ok THEN [exc |-> "JSONDecodeError", value |-> EmptyDict]
             ELSE IF data_deep.value.t # "dict"
                  THEN [exc |-> "AttributeError", value |-> EmptyDict]
                  ELSE [exc |-> "none", value |-> data_deep.value]

\* mutant of TryRemote: the cache is saved although the second call failed
TryRemote_SaveAnyway(r0, answers) ==
    LET bw == RemoteBuzz(answers.buzz)
        deep == RemoteDeep(answers.deep)
    IN  IF bw.exc # "none" THEN [saves |-> FALSE, exc |-> bw.exc, r |-> r0]
        ELSE [saves |-> TRUE, exc |-> "none",
              r |-> [topics |-> Get(deep.value.v, "topics", r0.topics),
                     buzzwords |-> bw.value,
                     summary |-> Get(deep.value.v, "summary", r0.summary),
                     topReviews |-> Get(deep.value.v, "topReviews", r0.topReviews),
                     bottomReviews |->
                         Get(deep.value.v, "bottomReviews", r0.bottomReviews)]]

\* lines 220-264, the try block up to save_analysis_cache: the results as
\* assigned so far, the exception that ended the block ("none": it reaches
\* save_analysis_cache)
TryRemote(r0, answers) ==
    LET bw == RemoteBuzz(answers.buzz)
        deep == RemoteDeep(answers.deep)
    IN  IF bw.exc # "none" THEN [saves |-> FALSE, exc |-> bw.exc, r |-> r0]
        ELSE IF deep.exc # "none"
             THEN [saves |-> FALSE, exc |-> deep.exc,
                   r |-> [r0 EXCEPT !.buzzwords = bw.value]]
             ELSE [saves |-> TRUE, exc |-> "none",
                   r |-> [topics |-> Get(deep.value.v, "topics", JList(<<>>)),
                          buzzwords |-> bw.value,
                          summary |-> Get(deep.value.v, "summary", JStr(<<>>)),
                          topReviews |-> Get(deep.value.v, "topReviews", JList(<<>>)),
                          bottomReviews |->
                              Get(deep.value.v, "bottomReviews", JList(<<>>))]]

\* mutant of Catches: except json.JSONDecodeError
Catches_OnlyJson(exc) == exc = "JSONDecodeError"

\* except Exception (line 263): the exceptions the try block can raise here
\* are all subclasses of Exception
Catches(exc) ==
    exc \in {"ApiError", "JSONDecodeError", "KeyError", "TypeError", "AttributeError"}

\* new_cache of lines 253-260
NewCache(r, now) ==
    JDict([topics |-> r.topics, buzzwords |-> r.buzzwords, summary |-> r.summary,
           topReviews |-> r.topReviews, bottomReviews |-> r.bottomReviews,
           date |-> JStr(Strftime(now))])

\* lines 266-273: the local fallbacks and the returned triple
LocalFallback(reviews, r) ==
    [topics |-> IF Truthy(r.topics) THEN r.topics
                ELSE get_local_topics([i \in 1..Len(Take(reviews, 50)) |->
                                          reviews[i].text]),
     buzzwords |-> IF Truthy(r.buzzwords) THEN r.buzzwords
                   ELSE get_local_buzzwords(reviews),
     insight |-> [summary |-> r.summary, topReviews |-> r.topReviews,
                  bottomReviews |-> r.bottomReviews]]

\* get_ai_data_hybrid up to the point where it returns or opens the cache file
get_ai_data_hybrid(reviews, cache, has_model, answers) ==
    LET r0 == FromCache(cache)
    IN  IF has_model THEN TryRemote(r0, answers)
        ELSE [saves |-> FALSE, exc |-> "none", r |-> r0]

-----------------------------------------------------------------------------
(* The run: __main__ *)

\* a first run in a checkout without data files and without GEMINI_API_KEY
\* (lines 37-40: model = None)
Init ==
    /\ dataFile = AbsentFile
    /\ cacheFile = AbsentCache
    /\ pc = "start"
    /\ model = FALSE
    /\ batch = <<>>
    /\ full = <<>>
    /\ new = <<>>
    /\ ai = <<>>
    /\ upstream = <<>>
    /\ today = <<>>
    /\ trends = <<>>
    /\ chart = <<>>
    /\ days = 14
    /\ topicK = 5
    /\ clusterOf = <<>>
    /\ representatives = <<>>
    /\ newCache = <<>>
    /\ result = <<>>

\* full, new = get_fresh_reviews(), the fetchers returning `fetched` over
\* the loop
GetFreshReviewsOn(fetched) ==
    /\ pc = "start"
    /\ LET got == get_fresh_reviews(dataFile, fetched)
       IN  /\ batch' = fetched
           /\ full' = got.full
           /\ new' = got.new
    /\ pc' = "merged"
    /\ UNCHANGED <<dataFile, cacheFile, model, ai, newCache, result>>
    /\ UNCHANGED <<today, days, trends, chart, topicK, clusterOf, representatives>>

\* what the fetchers can return over the loop of one run
Batches == {Fetched(APP_CONFIG, feeds) : feeds \in FeedChoices}

\* full, new = get_fresh_reviews()
GetFreshReviews ==
    \E fetched \in Batches : GetFreshReviewsOn(fetched) /\ UNCHANGED upstream

\* save_history up to open(DATA_FILE, 'w'): the file is truncated
SaveHistoryOpen ==
    /\ pc = "merged"
    /\ dataFile' = [state |-> "torn", content |-> <<>>]
    /\ pc' = "saving"
    /\ UNCHANGED <<cacheFile, model, batch, full, new, ai, newCache, result>>
    /\ upstream' = <<>>
    /\ UNCHANGED <<today, days, trends, chart, topicK, clusterOf, representatives>>

\* json.dump and the end of the with block: the document is complete
SaveHistoryClose ==
    /\ pc = "saving"
    /\ dataFile' = [state |-> "ok", content |-> SavedHistory(full)]
    /\ pc' = "saved"
    /\ UNCHANGED <<cacheFile, model, batch, full, new, ai, newCache, result>>
    /\ UNCHANGED <<upstream, today, days, trends, chart, topicK, clusterOf, representatives>>

\* the process dies inside save_history, the file open for writing and
\* json.dump anywhere short of the end of the document
CrashInSaveHistory ==
    /\ pc = "saving"
    /\ \E k \in 0..Len(SavedHistory(full)) :
         /\ k = 0 \/ k < Len(SavedHistory(full))
         /\ dataFile' = [state |-> "torn", content |-> Take(SavedHistory(full), k)]
    /\ pc' = "crashed"
    /\ UNCHANGED <<cacheFile, model, batch, full, new, ai, newCache, result>>
    /\ UNCHANGED <<upstream, today, days, trends, chart, topicK, clusterOf, representatives>>

\* the process dies inside save_analysis_cache, the file open for writing
CrashInSaveCache ==
    /\ pc = "cachesaving"
    /\ pc' = "crashed"
    /\ UNCHANGED <<dataFile, cacheFile, model, batch, full, new, ai, newCache, result>>
    /\ UNCHANGED <<upstream, today, days, trends, chart, topicK, clusterOf, representatives>>

\* the next invocation of the script: a new process in the same environment,
\* the files as the last one left them
Restart ==
    /\ pc \in {"done", "failed", "aborted", "crashed"}
    /\ pc' = "start"
    /\ batch' = <<>>
    /\ full' = <<>>
    /\ new' = <<>>
    /\ ai' = <<>>
    /\ newCache' = <<>>
    /\ result' = <<>>
    /\ UNCHANGED <<dataFile, cacheFile, model>>
    /\ UNCHANGED <<upstream, today, days, trends, chart, topicK, clusterOf, representatives>>

\* mutant of ReadyForAnalysis: the analysis is called before save_history
ReadyForAnalysis_BeforeSave == pc \in {"merged", "saved"}

\* __main__ calls run_analysis_and_generate_html once save_history returned
ReadyForAnalysis == pc = "saved"

\* run_analysis_and_generate_html without the AI client (model is None): the
\* resolver answers from the cache and the local heuristics; the rendering
\* after it may raise
RunAnalysisLocal ==
    /\ ReadyForAnalysis
    /\ ~model
    /\ LET got == get_ai_data_hybrid(full, load_analysis_cache(cacheFile), FALSE,
                                     [buzz |-> Raises, deep |-> Raises])
       IN  result' = LocalFallback(full, got.r)
    /\ pc' \in {"done", "failed"}
    /\ UNCHANGED <<dataFile, cacheFile, model, batch, full, new, ai, newCache>>
    /\ UNCHANGED <<upstream, today, days, trends, chart, topicK, clusterOf, representatives>>

\* run_analysis_and_generate_html with the AI client: the resolver answers
\* without writing the cache, or opens the cache file (which truncates it);
\* an exception the except clause does not catch ends the process
RunAnalysisRemote ==
    /\ ReadyForAnalysis
    /\ model
    /\ \E buzz \in BuzzResponses, deep \in DeepResponses, now \in Nows :
         LET answers == [buzz |-> buzz, deep |-> deep]
             got == get_ai_data_hybrid(full, load_analysis_cache(cacheFile), TRUE,
                                       answers)
         IN  /\ ai' = answers
             /\ IF got.exc # "none" /\ ~Catches(got.exc)
                THEN /\ pc' = "aborted"
                     /\ UNCHANGED <<cacheFile, newCache, result>>
                ELSE IF got.saves
                THEN /\ newCache' = NewCache(got.r, now)
                     /\ cacheFile' = [state |-> "torn", content |-> EmptyDict]
                     /\ pc' = "cachesaving"
                     /\ UNCHANGED result
                ELSE /\ result' = LocalFallback(full, got.r)
                     /\ pc' \in {"done", "failed"}
                     /\ UNCHANGED <<cacheFile, newCache>>
    /\ UNCHANGED <<dataFile, model, batch, full, new>>
    /\ UNCHANGED <<upstream, today, days, trends, chart, topicK, clusterOf, representatives>>

\* save_analysis_cache completes and get_ai_data_hybrid returns
SaveCacheClose ==
    /\ pc = "cachesaving"
    /\ cacheFile' = SavedCache(newCache)
    /\ result' = LocalFallback(full, newCache.v)
    /\ newCache' = <<>>
    /\ pc' \in {"done", "failed"}
    /\ UNCHANGED <<dataFile, model, batch, full, new, ai>>
    /\ UNCHANGED <<upstream, today, days, trends, chart, topicK, clusterOf, representatives>>

Next ==
    \/ GetFreshReviews
    \/ SaveHistoryOpen
    \/ SaveHistoryClose
    \/ CrashInSaveHistory
    \/ RunAnalysisLocal
    \/ Restart

\* the runs of the script, one after the other, without an API key
Spec == Init /\ [][Next]_vars

-----------------------------------------------------------------------------
(* One run on its own, over the data files a checkout can hold, the        *)
(* answers of the stores kept while get_fresh_reviews has just returned    *)

\* a record as the history file holds it, its 'id' removed by hand
WithoutId(r) == [k \in DOMAIN r \ {"id"} |-> r[k]]

\* history files: none; one a crash of save_history left; one that is not
\* a list of objects; one whose entry has no 'id'; two that save_history
\* wrote
HistoryFiles ==
    LET a == AndroidRecord(Nordkurier, AndroidA)
        c == AndroidRecord(Nordkurier, AndroidC)
    IN  {AbsentFile,
         [state |-> "torn", content |-> <<a>>],
         [state |-> "foreign", content |-> <<>>],
         [state |-> "ok", content |-> <<WithoutId(a)>>],
         [state |-> "ok", content |-> SavedHistory(<<a>>)],
         [state |-> "ok", content |-> SavedHistory(<<a, c>>)]}

\* an entry save_analysis_cache wrote after a successful remote analysis
PopulatedCache ==
    SavedCache(NewCache([topics |-> JList(<<Login>>),
                         buzzwords |-> JList(<<JTuple(<<Login, JNum(12)>>)>>),
                         summary |-> JStr(<<"o", "k">>),
                         topReviews |-> JList(<<>>),
                         bottomReviews |-> JList(<<>>)], Day1))

\* cache files: none; one a crash of save_analysis_cache left; a populated one
CacheFiles ==
    {AbsentCache, [state |-> "torn", content |-> EmptyDict], PopulatedCache}

InitScrape ==
    /\ dataFile \in HistoryFiles
    /\ cacheFile \in CacheFiles
    /\ pc = "start"
    /\ model = FALSE
    /\ batch = <<>>
    /\ full = <<>>
    /\ new = <<>>
    /\ ai = <<>>
    /\ newCache = <<>>
    /\ result = <<>>
    /\ upstream = <<>>
    /\ today = <<>>
    /\ trends = <<>>
    /\ chart = <<>>
    /\ days = 14
    /\ topicK = 5
    /\ clusterOf = <<>>
    /\ representatives = <<>>

\* full, new = get_fresh_reviews(), the answers of the stores recorded
GetFreshReviewsTraced ==
    \E feeds \in FeedChoices :
        GetFreshReviewsOn(Fetched(APP_CONFIG, feeds)) /\ upstream' = feeds

NextScrape ==
    \/ GetFreshReviewsTraced
    \/ SaveHistoryOpen
    \/ SaveHistoryClose
    \/ CrashInSaveHistory
    \/ RunAnalysisLocal

SpecScrape == InitScrape /\ [][NextScrape]_vars

-----------------------------------------------------------------------------
(* The analysis phase on its own, with and without the AI client *)

RevAbsturz ==
    AndroidRecord(Nordkurier,
        [content |-> <<"A", "b", "s", "t", "u", "r", "z", " ", "a", "p", "p">>,
         score |-> 1, at |-> Day1, replyContent |-> <<>>])

RevWerbung ==
    AndroidRecord(Schwaebische,
        [content |-> <<"W", "e", "r", "b", "u", "n", "g", " ",
                       "n", "e", "r", "v", "t", "!">>,
         score |-> 2, at |-> Day2, replyContent |-> <<>>])

\* histories as get_fresh_reviews returns them (newest first)
AnalysisInputs ==
    {<<>>, <<RevAbsturz>>, <<RevWerbung, RevAbsturz>>,
     <<AndroidRecord(Nordkurier, AndroidA)>>}

\* a process that has merged and saved its history and is about to analyse it
InitAI ==
    /\ full \in AnalysisInputs
    /\ dataFile = [state |-> "ok", content |-> SavedHistory(full)]
    /\ cacheFile = AbsentCache
    /\ pc = "saved"
    /\ model \in BOOLEAN
    /\ batch = <<>>
    /\ new = <<>>
    /\ ai = <<>>
    /\ upstream = <<>>
    /\ today = <<>>
    /\ trends = <<>>
    /\ chart = <<>>
    /\ days = 14
    /\ topicK = 5
    /\ clusterOf = <<>>
    /\ representatives = <<>>
    /\ newCache = <<>>
    /\ result = <<>>

\* the next invocation, arrived at the same point; the API key may have been
\* set or removed in between
NextRun ==
    /\ pc \in {"done", "failed", "aborted", "crashed"}
    /\ full' \in AnalysisInputs
    /\ dataFile' = [state |-> "ok", content |-> SavedHistory(full')]
    /\ pc' = "saved"
    /\ model' \in BOOLEAN
    /\ ai' = <<>>
    /\ newCache' = <<>>
    /\ result' = <<>>
    /\ UNCHANGED <<cacheFile, batch, new>>
    /\ UNCHANGED <<upstream, today, days, trends, chart, topicK, clusterOf, representatives>>

NextAI ==
    \/ RunAnalysisLocal
    \/ RunAnalysisRemote
    \/ SaveCacheClose
    \/ CrashInSaveCache
    \/ NextRun

SpecAI == InitAI /\ [][NextAI]_vars

-----------------------------------------------------------------------------
(* 3. Analytics: calculate_trends and prepare_chart_data.  A float the     *)
(* code rounds to two decimals is its number of hundredths (3.0 is 300).   *)

IsLeap(y) == (y % 4 = 0 /\ y % 100 # 0) \/ y % 400 = 0

DaysInMonth(y, m) ==
    IF m = 2 THEN (IF IsLeap(y) THEN 29 ELSE 28)
    ELSE IF m \in {4, 6, 9, 11} THEN 30 ELSE 31

\* d - timedelta(days=1)
PrevDay(d) ==
    IF d.day > 1 THEN [d EXCEPT !.day = d.day - 1]
    ELSE IF d.month > 1
    THEN [year |-> d.year, month |-> d.month - 1,
          day |-> DaysInMonth(d.year, d.month - 1)]
    ELSE [year |-> d.year - 1, month |-> 12, day |-> 31]

\* d - timedelta(days=n)
RECURSIVE MinusDays(_, _)
MinusDays(d, n) == IF n = 0 THEN d ELSE MinusDays(PrevDay(d), n - 1)

\* a <= b on dates
DateLeq(a, b) ==
    \/ a.year < b.year
    \/ a.year = b.year /\ a.month < b.month
    \/ a.year = b.year /\ a.month = b.month /\ a.day <= b.day

IsDigits(s) == \A i \in 1..Len(s) : \E n \in 0..9 : DigitChar(n) = s[i]

\* int(s) of a string of digits
RECURSIVE Number(_)
Number(s) ==
    IF s = <<>> THEN 0
    ELSE 10 * Number(SubSeq(s, 1, Len(s) - 1)) + (Ord(s[Len(s)]) - 48)

NoDate == [ok |-> FALSE, date |-> [year |-> 0, month |-> 0, day |-> 0]]

\* datetime.strptime(s, '%Y-%m-%d').date(); ok is FALSE for ValueError: four
\* digits of year, one or two of month and of day, a day of the calendar,
\* and nothing behind
Strptime(s) ==
    LET dashes == SelectSeq([i \in 1..Len(s) |-> i], LAMBDA i : s[i] = "-")
    IN  IF Len(dashes) # 2 \/ dashes[1] # 5 THEN NoDate
        ELSE LET y == SubSeq(s, 1, 4)
                 m == SubSeq(s, 6, dashes[2] - 1)
                 d == SubSeq(s, dashes[2] + 1, Len(s))
             IN  IF /\ IsDigits(y) /\ IsDigits(m) /\ IsDigits(d)
                    /\ Len(m) \in 1..2 /\ Len(d) \in 1..2
                    /\ Number(y) >= 1
                    /\ Number(m) \in 1..12
                    /\ Number(d) \in 1..DaysInMonth(Number(y), Number(m))
                 THEN [ok |-> TRUE,
                       date |-> [year |-> Number(y), month |-> Number(m),
                                 day |-> Number(d)]]
                 ELSE NoDate

\* sum(ratings)
RECURSIVE Sum(_)
Sum(ratings) == IF ratings = <<>> THEN 0 ELSE Head(ratings) + Sum(Tail(ratings))

\* round(total / n, 2) in hundredths, to nearest; total / n falls half way
\* between two hundredths only when 8 divides n
Round2(total, n) == (200 * total + n) \div (2 * n)

\* round(sum(ratings) / len(ratings), 2) if ratings else 0.0
Average(ratings) ==
    IF ratings = <<>> THEN 0 ELSE Round2(Sum(ratings), Len(ratings))

\* the try block reaches the `if r.get('text')`: the date parses and the
\* rating converts
Parsed(r) ==
    /\ "date" \in DOMAIN r
    /\ Strptime(r.date).ok
    /\ "rating" \in DOMAIN r

\* mutant of InWindow: d > cutoff
InWindow_Exclusive(d, today_, n) == ~DateLeq(d, MinusDays(today_, n))

\* d >= cutoff of get_avg
InWindow(d, today_, n) == DateLeq(MinusDays(today_, n), d)

\* the keys of `breakdown`
BreakdownApps == {Nordkurier, Schwaebische}
BreakdownStores == {Ios, Android}

calculate_trends(reviews, today_) ==
    LET Ratings(rs) == [i \in 1..Len(rs) |-> rs[i].rating]
        dated_reviews ==
            SelectSeq(reviews, LAMBDA r : Parsed(r) /\ Get(r, "text", <<>>) # <<>>)
        Cell(app, store) ==
            SelectSeq(reviews, LAMBDA r : /\ Parsed(r)
                                          /\ "app" \in DOMAIN r
                                          /\ r.app = app
                                          /\ Get(r, "store", <<>>) = store)
        get_avg(n) ==
            Average(Ratings(SelectSeq(dated_reviews,
                LAMBDA r : InWindow(Strptime(r.date).date, today_, n))))
        Total(store) ==
            Len(SelectSeq(reviews, LAMBDA r : Get(r, "store", <<>>) = store))
    IN  IF dated_reviews = <<>>
        THEN [overall |-> 0, last_7d |-> 0, last_30d |-> 0, breakdown |-> <<>>,
              ios_total |-> 0, android_total |-> 0]
        ELSE [overall |-> Average(Ratings(dated_reviews)),
              last_7d |-> get_avg(7),
              last_30d |-> get_avg(30),
              breakdown |-> [app \in BreakdownApps |->
                                [store \in BreakdownStores |->
                                    Average(Ratings(Cell(app, store)))]],
              ios_total |-> Total(Ios),
              android_total |-> Total(Android)]

\* mutant of SortedLabels: the keys in the order of the dict
SortedLabels_DictOrder(keys) == keys

\* sorted(stats.keys())
RECURSIVE SortedLabels(_)
SortedLabels(keys) ==
    IF keys = <<>> THEN <<>>
    ELSE LET init == SortedLabels(SubSeq(keys, 1, Len(keys) - 1))
             k == keys[Len(keys)]
             before == SelectSeq(init, LAMBDA x : ~StrLess(k, x))
             after == SelectSeq(init, LAMBDA x : StrLess(k, x))
         IN  before \o <<k>> \o after

\* strftime('%d.%m.')
StrftimeDayMonth(d) == Decimal(d.day, 2) \o <<".">> \o Decimal(d.month, 2) \o <<".">>

\* the class prepare_chart_data counts a rating in
Sentiment(rat) == IF rat >= 4 THEN "pos" ELSE IF rat <= 2 THEN "neg" ELSE "neu"

prepare_chart_data(reviews, today_, n) ==
    LET keys == [i \in 1..n |-> Strftime(MinusDays(today_, i - 1))]
        labels == SortedLabels(keys)
        Counted(l, class) ==
            Len(SelectSeq(reviews, LAMBDA r : /\ r.date = l
                                              /\ "rating" \in DOMAIN r
                                              /\ Sentiment(r.rating) = class))
    IN  [labels |-> [k \in 1..Len(labels) |->
                        StrftimeDayMonth(Strptime(labels[k]).date)],
         pos |-> [k \in 1..Len(labels) |-> Counted(labels[k], "pos")],
         neg |-> [k \in 1..Len(labels) |-> Counted(labels[k], "neg")],
         neu |-> [k \in 1..Len(labels) |-> Counted(labels[k], "neu")]]

-----------------------------------------------------------------------------
(* The trend functions on their own, over histories of fetched reviews *)

Mar1 == [year |-> 2024, month |-> 3, day |-> 1]

Gut == <<"g", "u", "t">>
Mies == <<"m", "i", "e", "s">>
Okay == <<"o", "k">>

\* reviews as the fetchers return them: dated Mar1 and 7, 8, 10, 30 and 31
\* days before, one without text, one from a feed entry without 'updated'
TrendUniverse ==
    <<IosRecord(Nordkurier,
          [content |-> Gut, rating |-> <<"5">>, updated |-> Updated(Mar1)]),
      IosRecord(Nordkurier,
          [content |-> <<>>, rating |-> <<"1">>, updated |-> Updated(Mar1)]),
      AndroidRecord(Schwaebische,
          [content |-> Okay, score |-> 3, at |-> MinusDays(Mar1, 7)]),
      AndroidRecord(Nordkurier,
          [content |-> Okay, score |-> 4, at |-> MinusDays(Mar1, 8)]),
      AndroidRecord(Nordkurier,
          [content |-> Mies, score |-> 1, at |-> MinusDays(Mar1, 10)]),
      IosRecord(Schwaebische,
          [content |-> Gut, rating |-> <<"4">>,
           updated |-> Updated(MinusDays(Mar1, 30))]),
      AndroidRecord(Schwaebische,
          [content |-> Gut, score |-> 5, at |-> MinusDays(Mar1, 31)]),
      IosRecord(Nordkurier, [content |-> Mies, rating |-> <<"2">>])>>

\* histories of at most MaxReviews reviews, as get_fresh_reviews returns them
TrendInputs ==
    {SortedByDateDesc([i \in 1..Len(p) |-> TrendUniverse[p[i]]]) :
        p \in {q \in SeqsUpTo(1..Len(TrendUniverse), MaxReviews) :
                  \A i \in 1..(Len(q) - 1) : q[i] < q[i + 1]}}

\* the day of the run
Todays == {Mar1, [year |-> 2024, month |-> 3, day |-> 2],
           [year |-> 2024, month |-> 1, day |-> 5]}

\* the window of the chart; the run passes none and gets 14
ChartDays == {0, 2, 14}

\* a process that has entered run_analysis_and_generate_html
InitTrends ==
    /\ full \in TrendInputs
    /\ today \in Todays
    /\ days \in ChartDays
    /\ dataFile = [state |-> "ok", content |-> SavedHistory(full)]
    /\ cacheFile = AbsentCache
    /\ pc = "analysis"
    /\ model = FALSE
    /\ batch = <<>>
    /\ new = <<>>
    /\ ai = <<>>
    /\ newCache = <<>>
    /\ result = <<>>
    /\ upstream = <<>>
    /\ trends = <<>>
    /\ chart = <<>>
    /\ topicK = 5
    /\ clusterOf = <<>>
    /\ representatives = <<>>

\* trends = calculate_trends(full_history)
CalculateTrends ==
    /\ pc = "analysis"
    /\ trends' = calculate_trends(full, today)
    /\ pc' = "trends"
    /\ UNCHANGED <<dataFile, cacheFile, model, batch, full, new, ai, newCache, result>>
    /\ UNCHANGED <<upstream, today, days, chart, topicK, clusterOf, representatives>>

\* chart = prepare_chart_data(full_history)
PrepareChartData ==
    /\ pc = "trends"
    /\ chart' = prepare_chart_data(full, today, days)
    /\ pc' = "chart"
    /\ UNCHANGED <<dataFile, cacheFile, model, batch, full, new, ai, newCache, result>>
    /\ UNCHANGED <<upstream, today, days, trends, topicK, clusterOf, representatives>>

NextTrends ==
    \/ CalculateTrends
    \/ PrepareChartData

SpecTrends == InitTrends /\ [][NextTrends]_vars

-----------------------------------------------------------------------------
(* 5. Embedding and clustering engine.  src/main.py imports KMeans and     *)
(* cosine_similarity and builds the embedder (lines 16-19, 31) and holds   *)
(* no caller of them: the engine is written down from section 4.4 of the   *)
(* specification.  K-means is any labelling of the qualifying records that *)
(* leaves no cluster empty, which covers every partition a seed can give.  *)

\* the minimum length threshold of a text, and the hard floor of the
\* qualifying count (scaled)
MinTextLen == 3
HardFloor == 3

\* only records with a text longer than the threshold participate
QualifyingForTopics(records) ==
    SelectSeq(records, LAMBDA r : Len(Get(r, "text", <<>>)) > MinTextLen)

\* the embedding of a text: a fixed-size vector that depends on the text only
Embed(text) ==
    CASE text = Mies -> <<1, 4>>
      [] text = TextC -> <<3, 1>>
      [] text = TextD -> <<2, 1>>
      [] Len(text) < 12 -> <<1, 3>>
      [] OTHER -> <<4, 1>>

\* mutant of EffectiveK: k is handed to K-means as asked
EffectiveK_NoReduce(k_, n) == k_

\* if fewer qualifying records exist than k, k is reduced to their count
EffectiveK(k_, n) == Min(k_, n)

\* K-means on n vectors with kk clusters: it fails unless 1 <= kk <= n, else
\* it gives every vector a cluster and every cluster a vector
KMeansOutcomes(n, kk) ==
    IF kk \notin 1..n THEN {}
    ELSE {l \in [1..n -> 1..kk] : \A c \in 1..kk : \E i \in 1..n : l[i] = c}

Dot(a, b) == a[1] * b[1] + a[2] * b[2]

\* the sum of the vectors of a set of members: the centroid times their
\* number, of the same direction as the centroid
RECURSIVE VecSum(_, _)
VecSum(vectors, members) ==
    IF members = {} THEN <<0, 0>>
    ELSE LET i == CHOOSE j \in members : TRUE
             rest == VecSum(vectors, members \ {i})
         IN  <<vectors[i][1] + rest[1], vectors[i][2] + rest[2]>>

\* cosine_similarity(a, c) > cosine_similarity(b, c), for vectors without
\* negative components
CloserTo(c, a, b) ==
    Dot(a, c) * Dot(a, c) * Dot(b, b) > Dot(b, c) * Dot(b, c) * Dot(a, a)

\* the member whose cosine similarity to the centroid is maximal, the first
\* of them when several are
Representative(vectors, members) ==
    LET c == VecSum(vectors, members)
    IN  CHOOSE i \in members :
            /\ \A j \in members : ~CloserTo(c, vectors[j], vectors[i])
            /\ \A j \in members : j < i => CloserTo(c, vectors[i], vectors[j])

\* extract_topics(records, k) when K-means answers with the labelling l:
\* one representative per cluster in cluster index order; raised when
\* K-means is asked for more clusters than there are vectors
extract_topics(records, k_, l) ==
    LET q == QualifyingForTopics(records)
        n == Len(q)
        kk == EffectiveK(k_, n)
        vectors == [i \in 1..n |-> Embed(q[i].text)]
    IN  IF n < HardFloor THEN [raised |-> FALSE, reps |-> <<>>]
        ELSE IF kk \notin 1..n THEN [raised |-> TRUE, reps |-> <<>>]
        ELSE [raised |-> FALSE,
              reps |-> [c \in 1..kk |->
                           q[Representative(vectors,
                                            {i \in 1..n : l[i] = c})]]]

\* reviews as the fetchers return them: five with a text long enough, two of
\* them with the same text, and one with a short text
TopicUniverse ==
    <<RevWerbung,
      AndroidRecord(Schwaebische,
          [content |-> Mies, score |-> 2, at |-> Day2, replyContent |-> <<>>]),
      RevAbsturz,
      AndroidRecord(Nordkurier, AndroidA),
      AndroidRecord(Nordkurier,
          [content |-> Mies, score |-> 1, at |-> Day1, replyContent |-> <<>>]),
      AndroidRecord(Nordkurier,
          [content |-> Gut, score |-> 5, at |-> Day1, replyContent |-> <<>>])>>

\* histories of at most MaxTopicReviews reviews
TopicInputs ==
    {SortedByDateDesc([i \in 1..Len(p) |-> TopicUniverse[p[i]]]) :
        p \in {q \in SeqsUpTo(1..Len(TopicUniverse), MaxTopicReviews) :
                  \A i \in 1..(Len(q) - 1) : q[i] < q[i + 1]}}

\* the numbers of topics asked for
TopicCounts == {1, 2, 5}

\* a process about to extract the topics of its history
InitTopics ==
    /\ full \in TopicInputs
    /\ topicK \in TopicCounts
    /\ dataFile = [state |-> "ok", content |-> SavedHistory(full)]
    /\ cacheFile = AbsentCache
    /\ pc = "analysis"
    /\ model = FALSE
    /\ batch = <<>>
    /\ new = <<>>
    /\ ai = <<>>
    /\ newCache = <<>>
    /\ result = <<>>
    /\ upstream = <<>>
    /\ today = <<>>
    /\ days = 14
    /\ trends = <<>>
    /\ chart = <<>>
    /\ clusterOf = <<>>
    /\ representatives = <<>>

\* representatives = extract_topics(full, k)
ExtractTopics ==
    /\ pc = "analysis"
    /\ LET n == Len(QualifyingForTopics(full))
           outcomes == KMeansOutcomes(n, EffectiveK(topicK, n))
       IN  IF n < HardFloor \/ outcomes = {}
           THEN /\ clusterOf' = <<>>
                /\ representatives' = extract_topics(full, topicK, <<>>)
           ELSE \E l \in outcomes :
                    /\ clusterOf' = l
                    /\ representatives' = extract_topics(full, topicK, l)
    /\ pc' = "topics"
    /\ UNCHANGED <<dataFile, cacheFile, model, batch, full, new, ai, newCache, result>>
    /\ UNCHANGED <<upstream, today, days, trends, chart, topicK>>

NextTopics == ExtractTopics

SpecTopics == InitTopics /\ [][NextTopics]_vars

-----------------------------------------------------------------------------
(* Properties *)

Range(list) == {list[i] : i \in 1..Len(list)}

\* the texts get_ai_data_hybrid hands to get_local_topics
SampleTexts == [i \in 1..Len(Take(full, 50)) |-> full[i].text]

\* both remote calls of this run were answered and parsed
BothParsed ==
    RemoteBuzz(ai.buzz).exc = "none" /\ RemoteDeep(ai.deep).exc = "none"

\* the cache file holds an entry with topics and buzzwords
CachePopulated ==
    /\ cacheFile.state = "ok"
    /\ Truthy(Get(cacheFile.content.v, "topics", JList(<<>>)))
    /\ Truthy(Get(cacheFile.content.v, "buzzwords", JList(<<>>)))

(* C1: merge idempotence across runs. Once a run has merged the batch it   *)
(* fetched and saved the result, loading the saved file and merging the    *)
(* same batch again reports no new record and saves the same set of        *)
(* records.                                                                *)
C1_MergeIdempotent ==
    pc \in {"saved", "done", "failed"} =>
        LET again == get_fresh_reviews(dataFile, batch)
        IN  /\ again.new = <<>>
            /\ Range(SavedHistory(again.full)) = Range(dataFile.content)

\* a run that inserted records from a batch of two has saved its history
C1_Witness == pc = "saved" /\ Len(batch) >= 2 /\ Len(new) >= 1

(* C2: the id stored with every fetched record is the fingerprint of that  *)
(* record's own text prefix, date, app and store.  Fails: fetch_ios_reviews *)
(* hashes without the date.                                                *)
C2_IdIsOwnFingerprint ==
    \A i \in 1..Len(batch) : batch[i].id = generate_id(batch[i])

(* C3: get_fresh_reviews returns exactly the genuinely new records: the    *)
(* fetched records whose id is neither in the loaded history nor carried   *)
(* by an earlier record of the same run, in fetch order; their ids are     *)
(* pairwise distinct and disjoint from the loaded ids, and together with   *)
(* the loaded ids they are the ids of the returned history.                *)
C3_ExactlyNew ==
    pc = "merged" =>
        LET loaded == load_history(dataFile)
            firsts == SelectSeq([i \in 1..Len(batch) |-> i],
                          LAMBDA i : /\ batch[i].id \notin Ids(loaded)
                                     /\ \A j \in 1..(i - 1) :
                                            batch[j].id # batch[i].id)
        IN  /\ Len(new) = Len(firsts)
            /\ \A k \in 1..Len(firsts) : new[k] = batch[firsts[k]]
            /\ \A i, j \in 1..Len(new) : i # j => new[i].id # new[j].id
            /\ Ids(new) \cap Ids(loaded) = {}
            /\ Ids(loaded) \cup Ids(new) = Ids(full)

\* a merge that kept one fetched record and dropped another, onto a loaded
\* history
C3_Witness ==
    /\ pc = "merged"
    /\ load_history(dataFile) # <<>>
    /\ Len(new) >= 1
    /\ Len(new) < Len(batch)

(* C4: when the remote attempt fails at any point and the cache holds a    *)
(* populated entry, the resolver returns exactly that entry's topics,      *)
(* buzzwords, summary, topReviews and bottomReviews.  Fails: buzzwords     *)
(* assigned by the first call survive a failure of the second.             *)
C4_CacheVerbatim ==
    (pc \in {"done", "failed"} /\ model /\ ~BothParsed /\ CachePopulated) =>
        LET X == cacheFile.content.v
        IN  result = [topics |-> X.topics, buzzwords |-> X.buzzwords,
                      insight |-> [summary |-> X.summary,
                                   topReviews |-> X.topReviews,
                                   bottomReviews |-> X.bottomReviews]]

(* C5: the cache file changes only in a run that has the AI client and in  *)
(* which both remote calls were answered and parsed; without the client or *)
(* after a failure of either call it is left as it was.                    *)
C5_CacheWrittenOnlyOnSuccess ==
    [][cacheFile' # cacheFile => (model' /\ BothParsed')]_vars

\* a run with the client whose remote attempt failed has returned, the
\* populated cache still in place
C5_Witness ==
    pc = "done" /\ model /\ ~BothParsed /\ CachePopulated

(* C6: the topics the resolver returns are never empty; when the remote AI *)
(* is absent or failed and the cache has no topics they are what           *)
(* get_local_topics computes, the single default label when no word        *)
(* qualifies.                                                              *)
C6_TopicsNeverEmpty ==
    pc \in {"done", "failed"} =>
        /\ Truthy(result.topics)
        /\ ((~model \/ ~BothParsed)
               /\ ~Truthy(FromCache(load_analysis_cache(cacheFile)).topics)) =>
              /\ result.topics = get_local_topics(SampleTexts)
              /\ result.topics.t = "list"
              /\ Len(result.topics.v) >= 1
              /\ (full = <<>> => result.topics = JList(<<JStr(DefaultTopic)>>))

\* the remote attempt failed on an empty cache and no word of the history
\* qualifies: the default label is returned
C6_Witness ==
    /\ pc = "done"
    /\ model
    /\ ~BothParsed
    /\ cacheFile.state = "absent"
    /\ full # <<>>
    /\ result.topics = JList(<<JStr(DefaultTopic)>>)

(* C7: no answer of the remote AI makes get_ai_data_hybrid raise: the      *)
(* process never ends on an exception of the remote attempt, and every run *)
(* with the client returns topics, buzzwords and insight.                  *)
C7_RemoteFailureNeverPropagates ==
    /\ pc # "aborted"
    /\ (pc \in {"done", "failed"} /\ model) =>
           DOMAIN result = {"topics", "buzzwords", "insight"}

\* the resolver has returned although an item of the first answer lacked
\* 'count'
C7_Witness ==
    pc = "done" /\ model /\ RemoteBuzz(ai.buzz).exc = "KeyError"

(* C8: once the analysis has started, whether it ends, raises or is still  *)
(* saving the cache, the history file is complete and holds every record   *)
(* merged in this run.                                                     *)
C8_HistorySavedBeforeAnalysis ==
    pc \in {"cachesaving", "done", "failed", "aborted"} =>
        /\ dataFile.state = "ok"
        /\ Range(dataFile.content) = Range(full)
        /\ Range(new) \subseteq Range(dataFile.content)

\* the analysis raised in a run that had merged new records
C8_Witness == pc = "failed" /\ Len(new) >= 1

(* C9: the persisted history holds at most the retention bound of records. *)
(* Fails: save_history writes every record of the history.                 *)
C9_BoundedRetention ==
    dataFile.state = "ok" => Len(dataFile.content) <= RetentionBound

(* C10: a complete history file on disk stays complete at every step, so a *)
(* crash at any point leaves the old or the new document.  Fails:          *)
(* save_history truncates the file when it opens it.                       *)
C10_CrashSafe ==
    [][dataFile.state = "ok" => dataFile'.state = "ok"]_vars

(* C11: a merge never mutates or removes a loaded record.  When            *)
(* get_fresh_reviews has returned, every record of the history it loaded   *)
(* is, unchanged and alone under its id, in the returned history and in    *)
(* the document save_history writes, also when a fetched record carries    *)
(* the same id with other field values.                                    *)
C11_FirstWriterWins ==
    pc = "merged" =>
        \A r \in Range(load_history(dataFile)) :
            /\ r \in Range(full)
            /\ r \in Range(SavedHistory(full))
            /\ \A i \in 1..Len(full) : full[i].id = r.id => full[i] = r

\* a fetched record had the id of a loaded record and other field values
C11_Witness ==
    /\ pc = "merged"
    /\ \E r \in Range(load_history(dataFile)) :
         \E i \in 1..Len(batch) : batch[i].id = r.id /\ batch[i] # r

\* the history file cannot be parsed, or none of its entries has an 'id'
Corrupt(file) ==
    \/ file.state \in {"torn", "foreign"}
    \/ /\ file.state = "ok"
       /\ file.content # <<>>
       /\ \A i \in 1..Len(file.content) : "id" \notin DOMAIN file.content[i]

(* C12: store corruption is not fatal.  Over a history file that cannot be *)
(* parsed or indexed by 'id', get_fresh_reviews returns the merge of the   *)
(* fetched batch into the empty history; over a cache file that cannot be  *)
(* parsed, the resolver answers as it does from an empty cache.            *)
C12_CorruptionNotFatal ==
    /\ (pc = "merged" /\ Corrupt(dataFile)) =>
           LET m == MergeInto(<<>>, <<>>, batch)
           IN  /\ new = m.new
               /\ full = SortedByDateDesc(m.hist)
    /\ (pc \in {"done", "failed"} /\ cacheFile.state = "torn") =>
           result = LocalFallback(full, FromCache(EmptyDict))

\* a batch was merged over a history file cut short behind its first entry
C12_Witness ==
    /\ pc = "merged"
    /\ dataFile.state = "torn"
    /\ dataFile.content # <<>>
    /\ Len(new) >= 1

\* the permutations of 1..n
Perms(n) == {p \in [1..n -> 1..n] : \A i, j \in 1..n : p[i] = p[j] => i = j}

\* the batch of this run in another order
Permuted(p) == [i \in 1..Len(batch) |-> batch[p[i]]]

(* C13 as claimed: merging the fetched records in any order gives the same *)
(* history (the same record under each id) and the same set of new         *)
(* records.  Fails when two fetched records share an id and differ: the    *)
(* first in order is kept.                                                 *)
C13_MergeCommutes ==
    pc = "merged" =>
        \A p \in Perms(Len(batch)) :
            LET other == get_fresh_reviews(dataFile, Permuted(p))
            IN  /\ Range(other.full) = Range(full)
                /\ Range(other.new) = Range(new)

\* the fetched records that carry the id
Carrying(id) == {batch[i] : i \in {j \in 1..Len(batch) : batch[j].id = id}}

(* C13 as amended: merging the fetched records in any order gives the same *)
(* ids in the history and among the new records, and the same record under *)
(* every id that the loaded history holds or that the fetched records      *)
(* carry with one value only.                                              *)
C13_MergeCommutesUpToCollisions ==
    pc = "merged" =>
        \A p \in Perms(Len(batch)) :
            LET other == get_fresh_reviews(dataFile, Permuted(p))
                loaded == load_history(dataFile)
            IN  /\ Ids(other.full) = Ids(full)
                /\ Ids(other.new) = Ids(new)
                /\ \A r \in Range(full) :
                       (r.id \in Ids(loaded) \/ Cardinality(Carrying(r.id)) = 1)
                           => r \in Range(other.full)
                /\ \A r \in Range(new) :
                       Cardinality(Carrying(r.id)) = 1 => r \in Range(other.new)

\* a batch of a known record and a new one, and one of two records that
\* share an id, have been merged
C13_Witness ==
    /\ pc = "merged"
    /\ Len(batch) = 2
    /\ batch[1].id \in Ids(load_history(dataFile))
    /\ batch[2].id \notin Ids(load_history(dataFile))

\* the fetch of one store for one app failed or met malformed data
SourceFailed(store, resp) ==
    \/ ~resp.ok
    \/ /\ store = Ios
       /\ \E i \in 1..Len(resp.entries) :
            /\ "content" \in DOMAIN resp.entries[i]
            /\ \/ "rating" \notin DOMAIN resp.entries[i]
               \/ IntOf(resp.entries[i].rating) = -1
    \/ /\ store = Android
       /\ \E i \in 1..Len(resp.entries) :
            {"at", "score", "content"} \ DOMAIN resp.entries[i] # {}

\* the records a source is due to contribute: none when it failed, else
\* one per entry that has a content
Due(app_name, store, resp) ==
    IF SourceFailed(store, resp) THEN <<>>
    ELSE IF store = Ios
    THEN LET es == SelectSeq(resp.entries, LAMBDA e : "content" \in DOMAIN e)
         IN  [i \in 1..Len(es) |-> IosRecord(app_name, es[i])]
    ELSE [i \in 1..Len(resp.entries) |-> AndroidRecord(app_name, resp.entries[i])]

(* C14: source failures are isolated.  When get_fresh_reviews has returned *)
(* from a run in which fetches failed or met malformed data, those fetches *)
(* contributed no record, the records of every other fetch are in the      *)
(* returned history under their ids, and so is every loaded record.        *)
C14_SourceFailureIsolated ==
    (pc = "merged" /\ upstream # <<>>) =>
        LET due == Due(Nordkurier, Ios, upstream[Nordkurier].ios)
                   \o Due(Nordkurier, Android, upstream[Nordkurier].android)
                   \o Due(Schwaebische, Ios, upstream[Schwaebische].ios)
                   \o Due(Schwaebische, Android, upstream[Schwaebische].android)
        IN  /\ batch = due
            /\ Ids(due) \subseteq Ids(full)
            /\ Range(load_history(dataFile)) \subseteq Range(full)

\* one fetch failed, another met malformed data, a third contributed a new
\* record to a loaded history
C14_Witness ==
    /\ pc = "merged"
    /\ upstream # <<>>
    /\ ~upstream[Nordkurier].ios.ok
    /\ upstream[Schwaebische].ios.ok
    /\ SourceFailed(Ios, upstream[Schwaebische].ios)
    /\ load_history(dataFile) # <<>>
    /\ Len(new) >= 1

\* the dates of a list of reviews never increase
NonIncreasingInDate(list) ==
    \A i \in 1..(Len(list) - 1) : ~StrLess(list[i].date, list[i + 1].date)

(* C19: sorted export.  The list get_fresh_reviews returned and every      *)
(* complete document save_history wrote are non-increasing in date.        *)
C19_SortedExport ==
    /\ NonIncreasingInDate(full)
    /\ dataFile.state = "ok" => NonIncreasingInDate(dataFile.content)

\* a newer record was fetched behind an older one, or onto a history of
\* older ones, and the history has been saved
C19_Witness ==
    /\ pc = "saved"
    /\ Len(new) >= 1
    /\ \E i \in 1..Len(full) : StrLess(full[i].date, new[Len(new)].date)
    /\ dataFile.content = full

\* the reviews of the history that qualify for the averages: a text and a
\* date that parses
Qualifying ==
    {i \in 1..Len(full) : full[i].text # <<>> /\ Strptime(full[i].date).ok}

\* the qualifying reviews dated today - n days or later
Within(n) ==
    {i \in Qualifying : DateLeq(MinusDays(today, n), Strptime(full[i].date).date)}

\* the qualifying reviews of an app in a store
SubSlice(app, store) ==
    {i \in Qualifying : full[i].app = app /\ full[i].store = store}

RECURSIVE SumOver(_)
SumOver(S) ==
    IF S = {} THEN 0
    ELSE LET i == CHOOSE j \in S : TRUE IN full[i].rating + SumOver(S \ {i})

\* the mean rating of a non-empty set of reviews, in hundredths
Mean(S) == Round2(SumOver(S), Cardinality(S))

\* calculate_trends has returned
Trended == pc \in {"trends", "chart"}

(* C15 as claimed: ios_total and android_total are the numbers of reviews  *)
(* of the history whose store is 'ios' and 'android', also when no review  *)
(* qualifies for the averages.  Fails: the early return reports 0 and 0.   *)
C15_TotalsMatchCounts ==
    Trended =>
        /\ trends.ios_total = Cardinality({i \in 1..Len(full) : full[i].store = Ios})
        /\ trends.android_total =
               Cardinality({i \in 1..Len(full) : full[i].store = Android})

(* C16: windowed averages.  Over the qualifying reviews, last_7d is the     *)
(* mean rating of those dated today-7d or later, last_30d of those dated   *)
(* today-30d or later, overall of all, boundaries included; ratings 5      *)
(* dated today and 1 dated ten days before give 5.0, 3.0 and 3.0.          *)
C16_WindowedAverages ==
    Trended =>
        /\ Qualifying # {} => trends.overall = Mean(Qualifying)
        /\ Within(7) # {} => trends.last_7d = Mean(Within(7))
        /\ Within(30) # {} => trends.last_30d = Mean(Within(30))
        /\ (today = Mar1 /\ full = <<TrendUniverse[1], TrendUniverse[5]>>) =>
               /\ trends.last_7d = 500
               /\ trends.last_30d = 300
               /\ trends.overall = 300

\* the averages of a 5 of today and a 1 of ten days before have been computed
C16_Witness ==
    /\ pc = "trends"
    /\ today = Mar1
    /\ full = <<TrendUniverse[1], TrendUniverse[5]>>
    /\ trends.last_7d = 500
    /\ trends.last_30d = 300

(* C17 as claimed, for a history in which some review qualifies: every     *)
(* (app, store) cell of the breakdown is the mean rating of the qualifying *)
(* reviews of that app and store, 0.0 when there is none.  Fails: the cell *)
(* averages the reviews without text too.                                  *)
C17_BreakdownSubSlice ==
    (Trended /\ Qualifying # {}) =>
        \A app \in BreakdownApps, store \in BreakdownStores :
            /\ app \in DOMAIN trends.breakdown
            /\ trends.breakdown[app][store] =
                   IF SubSlice(app, store) = {} THEN 0
                   ELSE Mean(SubSlice(app, store))

(* C18: daily sentiment buckets.  prepare_chart_data returns `days` labels *)
(* and `days` values of pos, neg and neu, one per calendar day of the      *)
(* window that ends today, oldest first; each counts the reviews dated     *)
(* that day with a rating of 4 or more, of 2 or less, and of 3; a day      *)
(* without reviews reports 0 three times.                                  *)
C18_DailyBuckets ==
    pc = "chart" =>
        /\ Len(chart.labels) = days
        /\ Len(chart.pos) = days /\ Len(chart.neg) = days /\ Len(chart.neu) = days
        /\ \A k \in 1..days :
             LET day == MinusDays(today, days - k)
                 On == {i \in 1..Len(full) : /\ Strptime(full[i].date).ok
                                             /\ Strptime(full[i].date).date = day}
             IN  /\ chart.labels[k] = StrftimeDayMonth(day)
                 /\ chart.pos[k] = Cardinality({i \in On : full[i].rating >= 4})
                 /\ chart.neg[k] = Cardinality({i \in On : full[i].rating <= 2})
                 /\ chart.neu[k] = Cardinality({i \in On : full[i].rating = 3})
                 /\ chart.pos[k] + chart.neg[k] + chart.neu[k] = Cardinality(On)
                 /\ On = {} => chart.pos[k] = 0 /\ chart.neg[k] = 0 /\ chart.neu[k] = 0

\* a chart of 14 days across the end of February with a positive, a neutral
\* and a negative day
C18_Witness ==
    /\ pc = "chart"
    /\ days = 14
    /\ today.month = 3
    /\ \E k \in 1..Len(chart.pos) : chart.pos[k] >= 1
    /\ \E k \in 1..Len(chart.neu) : chart.neu[k] >= 1
    /\ \E k \in 1..Len(chart.neg) : chart.neg[k] >= 1

(* C20 as claimed: overall, last_7d, last_30d and every breakdown cell      *)
(* whose set of qualifying reviews is empty are reported as 0.0, the empty *)
(* history included.  Fails: without a qualifying review the breakdown has *)
(* no cells, and a cell without a qualifying review averages the reviews   *)
(* without text.                                                           *)
C20_EmptyWindowsZero ==
    Trended =>
        /\ Qualifying = {} => trends.overall = 0
        /\ Within(7) = {} => trends.last_7d = 0
        /\ Within(30) = {} => trends.last_30d = 0
        /\ \A app \in BreakdownApps, store \in BreakdownStores :
               SubSlice(app, store) = {} =>
                   /\ app \in DOMAIN trends.breakdown
                   /\ trends.breakdown[app][store] = 0

\* the records of the history whose text is long enough for the clustering
LongEnough == {i \in 1..Len(full) : Len(full[i].text) > MinTextLen}

(* C21: topic extraction by clustering.  Asked for k topics, the engine    *)
(* never fails; it returns no more representatives than k and than the     *)
(* number of qualifying records, exactly the smaller of the two once the   *)
(* hard floor is met; the representatives are qualifying records of the    *)
(* history, one out of each cluster, and no record is returned twice.      *)
C21_ClusterRepresentatives ==
    pc = "topics" =>
        LET reps == representatives.reps
            n == Cardinality(LongEnough)
        IN  /\ ~representatives.raised
            /\ Len(reps) <= topicK /\ Len(reps) <= n
            /\ n >= HardFloor => Len(reps) = Min(topicK, n)
            /\ \A c \in 1..Len(reps) : \E i \in LongEnough : full[i] = reps[c]
            /\ \A c, d \in 1..Len(reps) : c # d => reps[c] # reps[d]
            /\ \A c \in 1..Len(reps) :
                   \E i \in 1..Len(clusterOf) :
                       /\ clusterOf[i] = c
                       /\ QualifyingForTopics(full)[i] = reps[c]

\* five topics were asked of three qualifying records and three came back
C21_Witness ==
    /\ pc = "topics"
    /\ topicK = 5
    /\ Cardinality(LongEnough) = 3
    /\ Len(representatives.reps) = 3

====
